---- MODULE Spec2Model ----
(***************************************************************************)
(* Model of the bulk-upload pipeline of the Task-manager backend           *)
(* (src/backend/routes/upload.js): parsing of a staged file, validation    *)
(* of the three-column contract, normalisation, round-robin distribution   *)
(* over the active agents, and sequential creation of one task per row.    *)
(*                                                                         *)
(* Strings are sequences of one-character strings, so that trim(),         *)
(* toLowerCase() and the phone regular expression are computed rather      *)
(* than assumed.  A JavaScript value is a record [t, v]: t is its type     *)
(* tag ("str", "num", "bool", "array" or "undef") and v the characters of  *)
(* its toString(), or the elements of the array.                           *)
(***************************************************************************)
EXTENDS Integers, Sequences, FiniteSets, TLC

\* ------------------------------------------------------------------ bounds
\* rows of the well-formed file a.csv
MaxRows == 2
\* largest value of the wall clock (milliseconds since the first request)
MaxClock == 1
\* records handed to the distribution function when it is checked alone
MaxRecords == 4
\* largest id of a task whose status the agents update
MaxTaskId == 1

\* ----------------------------------------------------------- JS strings
Undefined == [t |-> "undef", v |-> <<>>]

Str(s) == [t |-> "str", v |-> s]

\* an array value
Arr(s) == [t |-> "array", v |-> s]

\* truthiness of a value as used by || and !
Truthy(x) ==
  CASE x.t = "str" -> x.v # <<>>
    [] x.t = "num" -> x.v # <<"0">>
    [] x.t = "bool" -> x.v = <<"t", "r", "u", "e">>
    [] OTHER -> FALSE

\* value.toString() of a string, number or boolean
toString(x) == x.v

\* a || b
OrElse(a, b) == IF Truthy(a) THEN a ELSE b

IsSpace(c) == c = " "

RECURSIVE TrimStart(_)
TrimStart(s) ==
  IF s # <<>> /\ IsSpace(Head(s)) THEN TrimStart(Tail(s)) ELSE s

RECURSIVE TrimEnd(_)
TrimEnd(s) ==
  IF s # <<>> /\ IsSpace(s[Len(s)]) THEN TrimEnd(SubSeq(s, 1, Len(s) - 1)) ELSE s

\* String.prototype.trim
trim(s) == TrimEnd(TrimStart(s))

LowerTable ==
  ("A" :> "a") @@ ("B" :> "b") @@ ("C" :> "c") @@ ("D" :> "d") @@
  ("E" :> "e") @@ ("F" :> "f") @@ ("G" :> "g") @@ ("H" :> "h") @@
  ("I" :> "i") @@ ("J" :> "j") @@ ("K" :> "k") @@ ("L" :> "l") @@
  ("M" :> "m") @@ ("N" :> "n") @@ ("O" :> "o") @@ ("P" :> "p") @@
  ("Q" :> "q") @@ ("R" :> "r") @@ ("S" :> "s") @@ ("T" :> "t") @@
  ("U" :> "u") @@ ("V" :> "v") @@ ("W" :> "w") @@ ("X" :> "x") @@
  ("Y" :> "y") @@ ("Z" :> "z")

LowerChar(c) == IF c \in DOMAIN LowerTable THEN LowerTable[c] ELSE c

\* String.prototype.toLowerCase
toLowerCase(s) == [i \in 1..Len(s) |-> LowerChar(s[i])]

DigitChars == {"0", "1", "2", "3", "4", "5", "6", "7", "8", "9"}

\* the character class [\d\s\-\(\)]
PhoneChar(c) == c \in DigitChars \cup {" ", "-", "(", ")"}

\* a pattern that takes any character
phoneRegexTest_anyChar(s) == Len(s) >= 1

\* /^[\+]?[\d\s\-\(\)]+$/.test(s)
phoneRegexTest(s) ==
  LET rest == IF s # <<>> /\ Head(s) = "+" THEN Tail(s) ELSE s
  IN  /\ Len(rest) >= 1
      /\ \A i \in 1..Len(rest) : PhoneChar(rest[i])

\* -------------------------------------------------------------- rows
\* A parsed row is the ordered list of its (column name, cell) pairs.
\* row[key]: the cell under exactly that column name, or undefined
Get(row, key) ==
  IF \E i \in 1..Len(row) : row[i].k = key
  THEN row[CHOOSE i \in 1..Len(row) : row[i].k = key].v
  ELSE Undefined

\* Object.keys(row)
ObjectKeys(row) == [i \in 1..Len(row) |-> row[i].k]

kFirstName == <<"F", "i", "r", "s", "t", "N", "a", "m", "e">>
kfirstname == <<"f", "i", "r", "s", "t", "n", "a", "m", "e">>
kFirstname == <<"F", "i", "r", "s", "t", "n", "a", "m", "e">>
kPhone == <<"P", "h", "o", "n", "e">>
kphone == <<"p", "h", "o", "n", "e">>
kNotes == <<"N", "o", "t", "e", "s">>
knotes == <<"n", "o", "t", "e", "s">>

requiredFields == <<kFirstName, kPhone, kNotes>>

normalizedRequired == [i \in 1..Len(requiredFields) |-> toLowerCase(requiredFields[i])]

\* Array.prototype.includes / some over a sequence
Includes(s, x) == \E i \in 1..Len(s) : s[i] = x

\* one entry of the error list: the message, the 1-based row it names
\* (0 for a file-level error) and the columns it names
Err(msg, row, cols) == [msg |-> msg, row |-> row, cols |-> cols]

\* the errors of one row, in the order the checks are made
RowErrors(row, rowNumber) ==
  LET firstName == OrElse(OrElse(Get(row, kFirstName), Get(row, kfirstname)),
                          Get(row, kFirstname))
      phone == OrElse(Get(row, kPhone), Get(row, kphone))
      notes == OrElse(OrElse(Get(row, kNotes), Get(row, knotes)), Str(<<>>))
      e1 == IF ~Truthy(firstName) \/ trim(toString(firstName)) = <<>>
            THEN <<Err("FirstName is required", rowNumber, <<>>)>> ELSE <<>>
      e2 == IF ~Truthy(phone) \/ trim(toString(phone)) = <<>>
            THEN <<Err("Phone is required", rowNumber, <<>>)>>
            ELSE IF ~phoneRegexTest(trim(toString(phone)))
                 THEN <<Err("Phone number format is invalid", rowNumber, <<>>)>>
                 ELSE <<>>
      e3 == IF Truthy(notes) /\ notes.t # "str" /\ notes.t # "num"
            THEN <<Err("Notes must be text", rowNumber, <<>>)>> ELSE <<>>
  IN  e1 \o e2 \o e3

\* data.forEach((row, index) => ...) from the row at position index on
RECURSIVE AllRowErrors(_, _)
AllRowErrors(data, index) ==
  IF index > Len(data) THEN <<>>
  ELSE RowErrors(data[index], index) \o AllRowErrors(data, index + 1)

\* the validator with isValid computed from the header checks only
validateCSVFormat_headerOnly(data) ==
  IF Len(data) = 0
  THEN [isValid |-> FALSE,
        errors |-> <<Err("File is empty or contains no valid data", 0, <<>>)>>]
  ELSE
    LET availableFields == ObjectKeys(data[1])
        missingFields ==
          SelectSeq(requiredFields,
            LAMBDA field :
              ~\E i \in 1..Len(availableFields) :
                 trim(toLowerCase(availableFields[i])) = toLowerCase(field))
        extraFields ==
          SelectSeq(availableFields,
            LAMBDA field :
              ~Includes(normalizedRequired, trim(toLowerCase(field))))
        eMissing == IF Len(missingFields) > 0
                    THEN <<Err("Missing required columns", 0, missingFields)>>
                    ELSE <<>>
        eExtra == IF Len(extraFields) > 0
                  THEN <<Err("Unexpected columns found", 0, extraFields)>>
                  ELSE <<>>
    IN  [isValid |-> Len(eMissing \o eExtra) = 0,
         errors |-> eMissing \o eExtra \o AllRowErrors(data, 1)]

\* a validator that returns at the first problem it finds
validateCSVFormat_stopsAtFirst(data) ==
  IF Len(data) = 0
  THEN [isValid |-> FALSE,
        errors |-> <<Err("File is empty or contains no valid data", 0, <<>>)>>]
  ELSE
    LET availableFields == ObjectKeys(data[1])
        missingFields ==
          SelectSeq(requiredFields,
            LAMBDA field :
              ~\E i \in 1..Len(availableFields) :
                 trim(toLowerCase(availableFields[i])) = toLowerCase(field))
        extraFields ==
          SelectSeq(availableFields,
            LAMBDA field :
              ~Includes(normalizedRequired, trim(toLowerCase(field))))
        eMissing == IF Len(missingFields) > 0
                    THEN <<Err("Missing required columns", 0, missingFields)>>
                    ELSE <<>>
        eExtra == IF Len(extraFields) > 0
                  THEN <<Err("Unexpected columns found", 0, extraFields)>>
                  ELSE <<>>
        all == eMissing \o eExtra \o AllRowErrors(data, 1)
        errors == IF Len(all) > 1 THEN <<all[1]>> ELSE all
    IN  [isValid |-> Len(errors) = 0, errors |-> errors]

\* validateCSVFormat: the errors of the input, all of them, and whether
\* there is none
validateCSVFormat(data) ==
  IF Len(data) = 0
  THEN [isValid |-> FALSE,
        errors |-> <<Err("File is empty or contains no valid data", 0, <<>>)>>]
  ELSE
    LET availableFields == ObjectKeys(data[1])
        missingFields ==
          SelectSeq(requiredFields,
            LAMBDA field :
              ~\E i \in 1..Len(availableFields) :
                 trim(toLowerCase(availableFields[i])) = toLowerCase(field))
        extraFields ==
          SelectSeq(availableFields,
            LAMBDA field :
              ~Includes(normalizedRequired, trim(toLowerCase(field))))
        eMissing == IF Len(missingFields) > 0
                    THEN <<Err("Missing required columns", 0, missingFields)>>
                    ELSE <<>>
        eExtra == IF Len(extraFields) > 0
                  THEN <<Err("Unexpected columns found", 0, extraFields)>>
                  ELSE <<>>
        errors == eMissing \o eExtra \o AllRowErrors(data, 1)
    IN  [isValid |-> Len(errors) = 0, errors |-> errors]

\* ------------------------------------------------------- normalisation
\* data.map((row, index) => ({ firstName, phone, notes, originalRow }))
normalizedData(data) ==
  [index \in 1..Len(data) |->
     LET row == data[index]
     IN  [firstName |->
            trim(toString(OrElse(OrElse(OrElse(Get(row, kFirstName),
                                               Get(row, kfirstname)),
                                        Get(row, kFirstname)), Str(<<>>)))),
          phone |->
            trim(toString(OrElse(OrElse(Get(row, kPhone), Get(row, kphone)),
                                 Str(<<>>)))),
          notes |->
            trim(toString(OrElse(OrElse(Get(row, kNotes), Get(row, knotes)),
                                 Str(<<>>)))),
          originalRow |-> index]]

\* ------------------------------------------------------- distribution
\* the loop with the line that moves to the next agent left out
RECURSIVE DistributeLoop_noAdvance(_, _, _, _, _)
DistributeLoop_noAdvance(tasks, agents, index, currentAgentIndex, distribution) ==
  IF index > Len(tasks) THEN distribution
  ELSE
    LET agent == agents[currentAgentIndex + 1]
    IN  DistributeLoop_noAdvance(tasks, agents, index + 1, currentAgentIndex,
          Append(distribution,
                 [agentId |-> agent._id,
                  agentName |-> agent.name,
                  agentEmail |-> agent.email,
                  task |-> tasks[index],
                  taskIndex |-> index]))

\* the loop with every entry put at the front of the plan
RECURSIVE DistributeLoop_prepends(_, _, _, _, _)
DistributeLoop_prepends(tasks, agents, index, currentAgentIndex, distribution) ==
  IF index > Len(tasks) THEN distribution
  ELSE
    LET agent == agents[currentAgentIndex + 1]
    IN  DistributeLoop_prepends(tasks, agents, index + 1,
          (currentAgentIndex + 1) % Len(agents),
          <<[agentId |-> agent._id,
             agentName |-> agent.name,
             agentEmail |-> agent.email,
             task |-> tasks[index],
             taskIndex |-> index]>> \o distribution)

\* the forEach loop of distributeTasksRoundRobin from the 1-based position
\* index on; currentAgentIndex is the 0-based index of the code
RECURSIVE DistributeLoop(_, _, _, _, _)
DistributeLoop(tasks, agents, index, currentAgentIndex, distribution) ==
  IF index > Len(tasks) THEN distribution
  ELSE
    LET agent == agents[currentAgentIndex + 1]
    IN  DistributeLoop(tasks, agents, index + 1,
          (currentAgentIndex + 1) % Len(agents),
          Append(distribution,
                 [agentId |-> agent._id,
                  agentName |-> agent.name,
                  agentEmail |-> agent.email,
                  task |-> tasks[index],
                  taskIndex |-> index]))

\* the function with a loop that stops one task early
distributeTasksRoundRobin_skipsLast(tasks, agents) ==
  DistributeLoop(SubSeq(tasks, 1, Len(tasks) - 1), agents, 1, 0, <<>>)

\* the function with the first task given to the second agent of the roster
distributeTasksRoundRobin_startsAtOne(tasks, agents) ==
  DistributeLoop(tasks, agents, 1, 1 % Len(agents), <<>>)

\* the function with the tasks cut into consecutive slices, the first
\* n mod w agents taking one task more than the others
distributeTasksRoundRobin_slices(tasks, agents) ==
  LET n == Len(tasks)
      w == Len(agents)
      base == n \div w
      larger == (n % w) * (base + 1)
      owner(i) == IF i <= larger THEN ((i - 1) \div (base + 1)) + 1
                  ELSE (n % w) + ((i - 1 - larger) \div base) + 1
  IN  [i \in 1..n |->
         [agentId |-> agents[owner(i)]._id,
          agentName |-> agents[owner(i)].name,
          agentEmail |-> agents[owner(i)].email,
          task |-> tasks[i],
          taskIndex |-> i]]

distributeTasksRoundRobin(tasks, agents) == DistributeLoop(tasks, agents, 1, 0, <<>>)

\* agents[0] is undefined for an empty roster, and reading agent._id of the
\* first task then throws a TypeError
distributeThrows(tasks, agents) == Len(tasks) > 0 /\ Len(agents) = 0

\* ------------------------------------------------------------ the store
\* ids of the users with role 'agent', in the order the store returns them
AgentOrder == <<"a1", "a2">>

Agents == {AgentOrder[i] : i \in 1..Len(AgentOrder)}

\* the administrator whose token the requests carry (req.user._id)
AdminId == "admin"

\* the user document of agent a
AgentDoc(a, active) ==
  [_id |-> a, name |-> <<"N", a>>, email |-> <<a, "@x">>, role |-> "agent",
   isActive |-> active]

\* ------------------------------------------------------ uploaded files
sCsv == <<".", "c", "s", "v">>
sXlsx == <<".", "x", "l", "s", "x">>
kNOTES == <<"N", "O", "T", "E", "S">>

DigitSeq == <<"1", "2", "3", "4", "5", "6", "7", "8", "9">>

Cell3(kf, f, kp, p, kn, n) ==
  <<[k |-> kf, v |-> Str(f)], [k |-> kp, v |-> Str(p)], [k |-> kn, v |-> Str(n)]>>

\* the i-th row of a well-formed file: cells carry surrounding blanks, the
\* phone uses every allowed character, and every second row has no notes
GoodRow(i, kn) ==
  Cell3(kFirstName, <<" ", "A", DigitSeq[i]>>,
        kPhone, IF i % 2 = 1 THEN <<"+", "1", DigitSeq[i], " ">>
                ELSE <<"(", DigitSeq[i], ")", " ", "2", "-", "3">>,
        kn, IF i % 2 = 1 THEN <<" ", "n", DigitSeq[i], " ">> ELSE <<>>)

\* a well-formed CSV file of n rows
GoodFile(n) ==
  [originalname |-> <<"a">> \o sCsv, mimetype |-> "text/csv", corrupt |-> FALSE,
   header |-> <<kFirstName, kPhone, kNotes>>,
   rows |-> [i \in 1..n |-> GoodRow(i, kNotes)]]

\* a CSV file whose notes column is spelled NOTES
UpperNotesFile ==
  [originalname |-> <<"b">> \o sCsv, mimetype |-> "text/csv", corrupt |-> FALSE,
   header |-> <<kFirstName, kPhone, kNOTES>>,
   rows |-> <<GoodRow(1, kNOTES)>>]

\* a CSV file whose second row has letters in the phone cell
BadPhoneFile ==
  [originalname |-> <<"a">> \o sCsv, mimetype |-> "text/csv", corrupt |-> FALSE,
   header |-> <<kFirstName, kPhone, kNotes>>,
   rows |-> <<GoodRow(1, kNotes),
              Cell3(kFirstName, <<"B">>, kPhone, <<"1", "a">>, kNotes, <<>>)>>]

\* a spreadsheet the reader cannot open
CorruptFile ==
  [originalname |-> <<"c">> \o sXlsx,
   mimetype |-> "application/vnd.openxmlformats-officedocument.spreadsheetml.sheet",
   corrupt |-> TRUE, header |-> <<>>, rows |-> <<>>]

\* the files a request may carry
Files == {GoodFile(MaxRows), UpperNotesFile, BadPhoneFile, CorruptFile}

\* ------------------------------------- files that test the validator
kMobile == <<"M", "o", "b", "i", "l", "e">>

\* the object the parsers make of one line under the header
RowOf(header, cells) ==
  [i \in 1..Len(header) |-> [k |-> header[i], v |-> Str(cells[i])]]

\* a CSV file with the lines under the header
CsvFile(name, header, lines) ==
  [originalname |-> name \o sCsv, mimetype |-> "text/csv", corrupt |-> FALSE,
   header |-> header,
   rows |-> [i \in 1..Len(lines) |-> RowOf(header, lines[i])]]

\* the numerals that tell the test files apart by name
Numeral(n) == <<"0", "1", "2", "3", "4", "5", "6", "7", "8", "9">>[n + 1]

\* a CSV file of n rows without a phone column: the column is left out, or
\* it is there under the name Mobile
NoPhoneFile(n, renamed) ==
  IF renamed
  THEN CsvFile(<<"m", Numeral(n)>>, <<kFirstName, kMobile, kNotes>>,
               [i \in 1..n |-> <<<<"A", DigitSeq[i]>>, <<"1", "2">>, <<"n">>>>])
  ELSE CsvFile(<<"d", Numeral(n)>>, <<kFirstName, kNotes>>,
               [i \in 1..n |-> <<<<"A", DigitSeq[i]>>, <<"n">>>>])

\* phone cells that are not an optional '+' followed by digits, spaces,
\* hyphens and parentheses: a letter, a '+' alone, a '+' that does not lead,
\* no character at all, blanks only
BadPhones ==
  {<<"1", "a">>, <<"+">>, <<"1", "+", "2">>, <<>>, <<" ", " ">>, <<" ", "x", "9">>}

\* a CSV file of MaxRows rows whose row i alone has the phone cell p
BadPhoneAt(i, p) ==
  CsvFile(<<"e">>, <<kFirstName, kPhone, kNotes>>,
          [j \in 1..MaxRows |->
             <<<<"A", DigitSeq[j]>>,
               IF j = i THEN p ELSE <<"+", "1", " ", "(", "2", ")", "-", "3">>,
               <<>>>>])

\* a phone cell that is well formed once the blank before its '+' is trimmed
PaddedPhone == <<" ", "+", "1">>

\* the files a request may carry when the validator is put to the test
SchemaFiles ==
  {GoodFile(MaxRows), CorruptFile, BadPhoneAt(1, PaddedPhone)}
    \cup {NoPhoneFile(n, renamed) : n \in 0..MaxRows, renamed \in BOOLEAN}
    \cup {BadPhoneAt(i, p) : i \in 1..MaxRows, p \in BadPhones}

\* String.prototype.endsWith
endsWith(s, suffix) ==
  /\ Len(s) >= Len(suffix)
  /\ SubSeq(s, Len(s) - Len(suffix) + 1, Len(s)) = suffix

\* ------------------------------------------------------------ variables
VARIABLES
  users,            \* agent id -> user document, for the agents not deleted
  tasks,            \* the task collection, in creation order
  staging,          \* the uploads directory: path -> file stored there
  clock,            \* Date.now()
  pc,               \* per request: idle, parse, find, create, done
  req,              \* per request: req.file, req.user and the file in its body
  data,             \* per request: the parsed rows
  agents,           \* per request: the roster read by User.find, once read
  distribution,     \* per request: the plan of distributeTasksRoundRobin, once made
  pos,              \* per request: 1-based position of the for..of loop
  taskData,         \* per request: the document handed to Task.create, once built
  createdTasks,     \* per request: the documents Task.create returned
  agentTaskCounts,  \* per request: per-agent counters, in insertion order
  response,         \* per request: the response sent (status 0: none yet)
  dTasks,           \* argument tasks of the distribution function alone
  dAgents,          \* argument agents of the distribution function alone
  dPlan,            \* its result
  dpc,              \* "call" before it ran, "return" after, "off" unused
  vData,            \* argument data of validateCSVFormat alone
  vResult,          \* its result and the records the normaliser makes of data
  vpc,              \* "call" before it ran, "return" after, "off" unused
  answer,           \* the response to the last history or detail query
  pFile,            \* the file handed to the parsers alone
  pResult,          \* the parsed rows, the validation and the records made of them
  ppc               \* "call" before they ran, "return" after, "off" unused

handlerVars ==
  <<pc, req, data, agents, distribution, pos, taskData, createdTasks,
    agentTaskCounts, response>>

distVars == <<dTasks, dAgents, dPlan, dpc>>

validateVars == <<vData, vResult, vpc>>

parseVars == <<pFile, pResult, ppc>>

\* the variables the upload handler and the agents route never touch
sideVars == <<distVars, validateVars, answer, parseVars>>

vars == <<users, tasks, staging, clock, handlerVars, sideVars>>

\* the requests, named in the order of their arrival
RunOrder == <<"r1", "r2">>

Runs == {RunOrder[i] : i \in 1..Len(RunOrder)}

\* the requests that arrive before r have arrived
Arrives(r) ==
  \A i, j \in 1..Len(RunOrder) :
    (i < j /\ RunOrder[j] = r) => pc[RunOrder[i]] # "idle"

NoResponse == [status |-> 0]

NoFile == [present |-> FALSE]

\* ------------------------------------------------- the uploads directory
\* multer's filename callback: `${Date.now()}-${file.originalname}`
StagingPath(now, originalname) == [ts |-> now, name |-> originalname]

\* multer's disk storage writes the upload at its path, replacing what is there
WriteFile(dir, path, f) ==
  [p \in (DOMAIN dir) \cup {path} |-> IF p = path THEN f ELSE dir[p]]

\* a clean-up that leaves the file where it is
CleanUp_keepsFile(dir, path) == dir

\* if (fs.existsSync(filePath)) fs.unlinkSync(filePath)
CleanUp(dir, path) == [p \in (DOMAIN dir) \ {path} |-> dir[p]]

\* parseCSV: the read stream fails when the file is gone, otherwise every
\* line after the header is a row
parseCSV(dir, path) ==
  IF path \notin DOMAIN dir THEN [ok |-> FALSE, rows |-> <<>>]
  ELSE [ok |-> TRUE, rows |-> dir[path].rows]

\* parseExcel: XLSX.readFile throws on a missing or unreadable workbook
parseExcel(dir, path) ==
  IF path \notin DOMAIN dir \/ dir[path].corrupt THEN [ok |-> FALSE, rows |-> <<>>]
  ELSE [ok |-> TRUE, rows |-> dir[path].rows]

\* the try block around the two parsers
ParseFile(dir, file) ==
  IF file.mimetype = "text/csv" \/ endsWith(file.originalname, sCsv)
  THEN parseCSV(dir, file.path)
  ELSE parseExcel(dir, file.path)

\* a query that leaves the isActive condition out
ActiveAgents_all(u) ==
  LET ids == SelectSeq(AgentOrder,
               LAMBDA a : a \in DOMAIN u /\ u[a].role = "agent")
  IN  [i \in 1..Len(ids) |-> u[ids[i]]]

\* User.find({ role: 'agent', isActive: true })
ActiveAgents(u) ==
  LET ids == SelectSeq(AgentOrder,
               LAMBDA a : a \in DOMAIN u /\ u[a].role = "agent" /\ u[a].isActive)
  IN  [i \in 1..Len(ids) |-> u[ids[i]]]

\* the roster check left out
NoAgents_never(ag) == FALSE

\* if (agents.length === 0)
NoAgents(ag) == Len(ag) = 0

\* ------------------------------------------------------ task documents
sContact == <<"C", "o", "n", "t", "a", "c", "t", ":", " ">>
sNameLbl == <<"N", "a", "m", "e", ":", " ">>
sPhoneLbl == <<"\n", "P", "h", "o", "n", "e", ":", " ">>
sNotesLbl == <<"\n", "N", "o", "t", "e", "s", ":", " ">>
sNoNotes == <<"N", "o", " ", "a", "d", "d", "i", "t", "i", "o", "n", "a", "l",
              " ", "n", "o", "t", "e", "s">>

\* the taskData literal built for one entry of the plan at time now
TaskData(dist, file, userId, now) ==
  [title |-> sContact \o dist.task.firstName,
   description |-> sNameLbl \o dist.task.firstName \o sPhoneLbl
                   \o dist.task.phone \o sNotesLbl
                   \o (IF dist.task.notes # <<>> THEN dist.task.notes ELSE sNoNotes),
   agentId |-> dist.agentId,
   status |-> "pending",
   priority |-> "medium",
   assignedBy |-> userId,
   metadata |-> [firstName |-> dist.task.firstName,
                 phone |-> dist.task.phone,
                 notes |-> dist.task.notes,
                 originalRow |-> dist.task.originalRow,
                 fileName |-> file.originalname,
                 uploadedAt |-> now]]

\* a store that takes every new task as already in progress
TaskDoc_started(store, td, now) ==
  [_id |-> Len(store) + 1,
   title |-> trim(td.title),
   description |-> trim(td.description),
   agentId |-> td.agentId,
   status |-> "in-progress",
   priority |-> td.priority,
   assignedBy |-> td.assignedBy,
   metadata |-> td.metadata,
   createdAt |-> now]

\* the document Task.create stores: the schema trims title and description,
\* the store adds the id and the creation time
TaskDoc(store, td, now) ==
  [_id |-> Len(store) + 1,
   title |-> trim(td.title),
   description |-> trim(td.description),
   agentId |-> td.agentId,
   status |-> td.status,
   priority |-> td.priority,
   assignedBy |-> td.assignedBy,
   metadata |-> td.metadata,
   createdAt |-> now]

\* a loop that leaves out the last entry of the plan
HasNext_stopsEarly(plan, p) == p < Len(plan) - 1

\* for (const dist of distribution): an entry follows the one at position p
HasNext(plan, p) == p < Len(plan)

\* counters that are set at the first task of an agent and left there
CountTask_noIncrement(counts, dist) ==
  IF \E i \in 1..Len(counts) : counts[i].agentId = dist.agentId
  THEN counts
  ELSE Append(counts, [agentId |-> dist.agentId, agentName |-> dist.agentName,
                       agentEmail |-> dist.agentEmail, count |-> 1])

\* agentTaskCounts[dist.agentId] is created at the first task, then counted up
CountTask(counts, dist) ==
  IF \E i \in 1..Len(counts) : counts[i].agentId = dist.agentId
  THEN [i \in 1..Len(counts) |->
          IF counts[i].agentId = dist.agentId
          THEN [counts[i] EXCEPT !.count = @ + 1] ELSE counts[i]]
  ELSE Append(counts, [agentId |-> dist.agentId, agentName |-> dist.agentName,
                       agentEmail |-> dist.agentEmail, count |-> 1])

\* ----------------------------------------------------------- responses
FailureResponse(status, message, errors) ==
  [status |-> status, success |-> FALSE, message |-> message, errors |-> errors]

SuccessResponse(file, nRows, ag, counts, created, now) ==
  [status |-> 200, success |-> TRUE,
   message |-> "Successfully processed tasks",
   data |-> [totalTasks |-> nRows,
             agentsCount |-> Len(ag),
             distribution |-> [i \in 1..Len(counts) |->
                                 [agentName |-> counts[i].agentName,
                                  agentEmail |-> counts[i].agentEmail,
                                  count |-> counts[i].count]],
             fileName |-> file.originalname,
             uploadedAt |-> now,
             createdTasks |-> Len(created)]]

\* --------------------------------------------------------------- Init
HandlerInit ==
  /\ tasks = <<>>
  /\ staging = <<>>
  /\ clock = 0
  /\ pc = [r \in Runs |-> "idle"]
  /\ req = [r \in Runs |-> [file |-> NoFile, user |-> AdminId, body |-> NoFile]]
  /\ data = [r \in Runs |-> <<>>]
  /\ agents = [r \in Runs |-> Undefined]
  /\ distribution = [r \in Runs |-> Undefined]
  /\ pos = [r \in Runs |-> 0]
  /\ taskData = [r \in Runs |-> Undefined]
  /\ createdTasks = [r \in Runs |-> <<>>]
  /\ agentTaskCounts = [r \in Runs |-> <<>>]
  /\ response = [r \in Runs |-> NoResponse]

\* the distribution function is not called on its own
DistOff == dTasks = <<>> /\ dAgents = <<>> /\ dPlan = <<>> /\ dpc = "off"

\* the validator is not called on its own
ValidateOff == vData = <<>> /\ vResult = <<>> /\ vpc = "off"

\* the parsers are not called on their own
ParseOff == pFile = <<>> /\ pResult = <<>> /\ ppc = "off"

\* no query has been answered
NoAnswer == [kind |-> "none"]

Init ==
  /\ users \in {[a \in Agents |-> AgentDoc(a, a \in S)] : S \in SUBSET Agents}
  /\ HandlerInit
  /\ DistOff
  /\ ValidateOff
  /\ answer = NoAnswer
  /\ ParseOff

\* ------------------------------------------- router.post('/'), by await
\* upload.single('file') stores the file, then the handler starts the parser
SubmitFrom(r, catalogue) ==
  /\ pc[r] = "idle"
  /\ Arrives(r)
  /\ \E f \in catalogue :
       LET path == StagingPath(clock, f.originalname)
       IN  /\ staging' = WriteFile(staging, path, f)
           /\ req' = [req EXCEPT ![r].file =
                        [present |-> TRUE, originalname |-> f.originalname,
                         mimetype |-> f.mimetype, path |-> path],
                                  ![r].body = f]
  /\ pc' = [pc EXCEPT ![r] = "parse"]
  /\ UNCHANGED <<users, tasks, clock, data, agents, distribution, pos,
                 taskData, createdTasks, agentTaskCounts, response, sideVars>>

\* a request with one of the files of the main catalogue
Submit(r) == SubmitFrom(r, Files)

\* a request with one of the files that test the validator
SubmitSchema(r) == SubmitFrom(r, SchemaFiles)

\* the request carries no file: if (!req.file) return 400
SubmitNoFile(r) ==
  /\ pc[r] = "idle"
  /\ Arrives(r)
  /\ pc' = [pc EXCEPT ![r] = "done"]
  /\ response' = [response EXCEPT ![r] =
                    FailureResponse(400, "No file uploaded",
                                    <<"Please select a CSV or Excel file to upload">>)]
  /\ UNCHANGED <<users, tasks, staging, clock, req, data, agents,
                 distribution, pos, taskData, createdTasks, agentTaskCounts,
                 sideVars>>

\* the parser failed: catch (parseError)
ParseFailed(r) ==
  /\ pc[r] = "parse"
  /\ ~ParseFile(staging, req[r].file).ok
  /\ staging' = CleanUp(staging, req[r].file.path)
  /\ pc' = [pc EXCEPT ![r] = "done"]
  /\ response' = [response EXCEPT ![r] =
                    FailureResponse(400, "Failed to parse file",
                                    <<"File format is invalid or corrupted">>)]
  /\ UNCHANGED <<users, tasks, clock, req, data, agents, distribution,
                 pos, taskData, createdTasks, agentTaskCounts, sideVars>>

\* a validation failure answered without the list of errors
ValidationFailed_noErrors(r) ==
  /\ pc[r] = "parse"
  /\ LET parsed == ParseFile(staging, req[r].file)
         validation == validateCSVFormat(parsed.rows)
     IN  /\ parsed.ok
         /\ ~validation.isValid
         /\ data' = [data EXCEPT ![r] = parsed.rows]
         /\ response' = [response EXCEPT ![r] =
                           FailureResponse(400, "CSV validation failed", <<>>)]
  /\ staging' = CleanUp(staging, req[r].file.path)
  /\ pc' = [pc EXCEPT ![r] = "done"]
  /\ UNCHANGED <<users, tasks, clock, req, agents, distribution, pos,
                 taskData, createdTasks, agentTaskCounts, sideVars>>

\* the rows were parsed and validateCSVFormat rejects them
ValidationFailed(r) ==
  /\ pc[r] = "parse"
  /\ LET parsed == ParseFile(staging, req[r].file)
         validation == validateCSVFormat(parsed.rows)
     IN  /\ parsed.ok
         /\ ~validation.isValid
         /\ data' = [data EXCEPT ![r] = parsed.rows]
         /\ response' = [response EXCEPT ![r] =
                           FailureResponse(400, "CSV validation failed",
                                           validation.errors)]
  /\ staging' = CleanUp(staging, req[r].file.path)
  /\ pc' = [pc EXCEPT ![r] = "done"]
  /\ UNCHANGED <<users, tasks, clock, req, agents, distribution, pos,
                 taskData, createdTasks, agentTaskCounts, sideVars>>

\* the rows were parsed and are valid: the handler awaits User.find
Validated(r) ==
  /\ pc[r] = "parse"
  /\ LET parsed == ParseFile(staging, req[r].file)
     IN  /\ parsed.ok
         /\ validateCSVFormat(parsed.rows).isValid
         /\ data' = [data EXCEPT ![r] = parsed.rows]
  /\ pc' = [pc EXCEPT ![r] = "find"]
  /\ UNCHANGED <<users, tasks, staging, clock, req, agents, distribution,
                 pos, taskData, createdTasks, agentTaskCounts, response, sideVars>>

\* the catch block of the handler: clean up, answer 500
Caught(r, message) ==
  /\ staging' = CleanUp(staging, req[r].file.path)
  /\ pc' = [pc EXCEPT ![r] = "done"]
  /\ response' = [response EXCEPT ![r] =
                    FailureResponse(500, "Server error during file processing",
                                    <<message>>)]

\* the end of the try block after the loop: clean up, answer success
Succeeded(r, ag, created, counts) ==
  /\ staging' = CleanUp(staging, req[r].file.path)
  /\ pc' = [pc EXCEPT ![r] = "done"]
  /\ response' = [response EXCEPT ![r] =
                    SuccessResponse(req[r].file, Len(data[r]), ag, counts,
                                    created, clock)]

\* User.find rejects
FindFailed(r) ==
  /\ pc[r] = "find"
  /\ Caught(r, "find failed")
  /\ UNCHANGED <<users, tasks, clock, req, data, agents, distribution,
                 pos, taskData, createdTasks, agentTaskCounts, sideVars>>

\* User.find resolves with an empty roster
NoActiveAgents(r) ==
  /\ pc[r] = "find"
  /\ NoAgents(ActiveAgents(users))
  /\ agents' = [agents EXCEPT ![r] = Arr(ActiveAgents(users))]
  /\ staging' = CleanUp(staging, req[r].file.path)
  /\ pc' = [pc EXCEPT ![r] = "done"]
  /\ response' = [response EXCEPT ![r] =
                    FailureResponse(400, "No active agents available",
                      <<"Please create at least one active agent before uploading tasks">>)]
  /\ UNCHANGED <<users, tasks, clock, req, data, distribution, pos,
                 taskData, createdTasks, agentTaskCounts, sideVars>>

\* User.find resolves with a roster: normalise, distribute, build the first
\* taskData and await Task.create
Distribute(r) ==
  /\ pc[r] = "find"
  /\ LET ag == ActiveAgents(users)
         nd == normalizedData(data[r])
     IN  /\ ~NoAgents(ag)
         /\ agents' = [agents EXCEPT ![r] = Arr(ag)]
         /\ IF distributeThrows(nd, ag)
            THEN /\ Caught(r, "TypeError")
                 /\ UNCHANGED <<distribution, pos, taskData>>
            ELSE LET plan == distributeTasksRoundRobin(nd, ag)
                 IN  /\ distribution' = [distribution EXCEPT ![r] = Arr(plan)]
                     /\ IF ~HasNext(plan, 0)
                        THEN /\ Succeeded(r, ag, <<>>, <<>>)
                             /\ UNCHANGED <<pos, taskData>>
                        ELSE /\ pos' = [pos EXCEPT ![r] = 1]
                             /\ taskData' = [taskData EXCEPT ![r] =
                                  TaskData(plan[1], req[r].file, req[r].user, clock)]
                             /\ pc' = [pc EXCEPT ![r] = "create"]
                             /\ UNCHANGED <<staging, response>>
  /\ UNCHANGED <<users, tasks, clock, req, data, createdTasks,
                 agentTaskCounts, sideVars>>

\* a creation that replaces the stored task of the same file name and row
TaskCreated_upsert(r) ==
  /\ pc[r] = "create"
  /\ LET doc == TaskDoc(tasks, taskData[r], clock)
         dist == distribution[r].v[pos[r]]
         created == Append(createdTasks[r], doc)
         counts == CountTask(agentTaskCounts[r], dist)
         same == {i \in 1..Len(tasks) :
                    /\ tasks[i].metadata.fileName = doc.metadata.fileName
                    /\ tasks[i].metadata.originalRow = doc.metadata.originalRow}
     IN  /\ tasks' = IF same = {} THEN Append(tasks, doc)
                     ELSE [i \in 1..Len(tasks) |->
                             IF i \in same THEN [doc EXCEPT !._id = i] ELSE tasks[i]]
         /\ createdTasks' = [createdTasks EXCEPT ![r] = created]
         /\ agentTaskCounts' = [agentTaskCounts EXCEPT ![r] = counts]
         /\ IF HasNext(distribution[r].v, pos[r])
            THEN /\ pos' = [pos EXCEPT ![r] = @ + 1]
                 /\ taskData' = [taskData EXCEPT ![r] =
                      TaskData(distribution[r].v[pos[r] + 1], req[r].file,
                               req[r].user, clock)]
                 /\ UNCHANGED <<staging, pc, response>>
            ELSE /\ Succeeded(r, agents[r].v, created, counts)
                 /\ UNCHANGED <<pos, taskData>>
  /\ UNCHANGED <<users, clock, req, data, agents, distribution, sideVars>>

\* Task.create resolves: record the task, count it, go on with the next entry
\* of the plan or finish
TaskCreated(r) ==
  /\ pc[r] = "create"
  /\ LET doc == TaskDoc(tasks, taskData[r], clock)
         dist == distribution[r].v[pos[r]]
         created == Append(createdTasks[r], doc)
         counts == CountTask(agentTaskCounts[r], dist)
     IN  /\ tasks' = Append(tasks, doc)
         /\ createdTasks' = [createdTasks EXCEPT ![r] = created]
         /\ agentTaskCounts' = [agentTaskCounts EXCEPT ![r] = counts]
         /\ IF HasNext(distribution[r].v, pos[r])
            THEN /\ pos' = [pos EXCEPT ![r] = @ + 1]
                 /\ taskData' = [taskData EXCEPT ![r] =
                      TaskData(distribution[r].v[pos[r] + 1], req[r].file,
                               req[r].user, clock)]
                 /\ UNCHANGED <<staging, pc, response>>
            ELSE /\ Succeeded(r, agents[r].v, created, counts)
                 /\ UNCHANGED <<pos, taskData>>
  /\ UNCHANGED <<users, clock, req, data, agents, distribution, sideVars>>

\* a catch block that deletes the tasks the run has already created
TaskCreateFailed_rollback(r) ==
  /\ pc[r] = "create"
  /\ Caught(r, "create failed")
  /\ tasks' = SelectSeq(tasks,
                 LAMBDA t : ~\E j \in 1..Len(createdTasks[r]) :
                               createdTasks[r][j] = t)
  /\ UNCHANGED <<users, clock, req, data, agents, distribution,
                 pos, taskData, createdTasks, agentTaskCounts, sideVars>>

\* Task.create rejects: nothing is stored, the catch block answers
TaskCreateFailed(r) ==
  /\ pc[r] = "create"
  /\ Caught(r, "create failed")
  /\ UNCHANGED <<users, tasks, clock, req, data, agents, distribution,
                 pos, taskData, createdTasks, agentTaskCounts, sideVars>>

\* ----------------------------------------------------- the environment
\* time passes
Tick ==
  /\ clock < MaxClock
  /\ clock' = clock + 1
  /\ UNCHANGED <<users, tasks, staging, handlerVars, sideVars>>

\* router.put('/:id') of the agents route with isActive in the body
UpdateAgentActive(a, isActive) ==
  /\ a \in DOMAIN users
  /\ users[a].role = "agent"
  /\ users[a].isActive # isActive
  /\ users' = [users EXCEPT ![a].isActive = isActive]
  /\ UNCHANGED <<tasks, staging, clock, handlerVars, sideVars>>

Next ==
  \/ \E r \in Runs :
       \/ Submit(r)
       \/ SubmitNoFile(r)
       \/ ParseFailed(r)
       \/ ValidationFailed(r)
       \/ Validated(r)
       \/ FindFailed(r)
       \/ NoActiveAgents(r)
       \/ Distribute(r)
       \/ TaskCreated(r)
       \/ TaskCreateFailed(r)
  \/ Tick

\* the upload requests against a worker directory that does not change
Spec == Init /\ [][Next]_vars

NextAgents ==
  \/ Next
  \/ \E a \in Agents, b \in BOOLEAN : UpdateAgentActive(a, b)

\* the upload requests while the administrator switches agents on and off
SpecAgents == Init /\ [][NextAgents]_vars

NextSchema ==
  \/ \E r \in Runs :
       \/ SubmitSchema(r)
       \/ SubmitNoFile(r)
       \/ ParseFailed(r)
       \/ ValidationFailed(r)
       \/ Validated(r)
       \/ FindFailed(r)
       \/ NoActiveAgents(r)
       \/ Distribute(r)
       \/ TaskCreated(r)
       \/ TaskCreateFailed(r)
  \/ Tick

\* the upload requests with files that break the column contract
SpecSchema == Init /\ [][NextSchema]_vars

\* ------------------------------------- the distribution function alone
\* the agent ids the rosters of the function's inputs are drawn from
RosterIds == Agents \cup {"a3"}

\* every roster of distinct agents, in every order
Rosters ==
  {s \in UNION {[1..k -> RosterIds] : k \in 1..Cardinality(RosterIds)} :
     \A i, j \in DOMAIN s : i # j => s[i] # s[j]}

InitDist ==
  /\ users = [a \in Agents |-> AgentDoc(a, TRUE)]
  /\ HandlerInit
  /\ dTasks \in {normalizedData(GoodFile(n).rows) : n \in 0..MaxRecords}
  /\ \E s \in Rosters : dAgents = [i \in DOMAIN s |-> AgentDoc(s[i], TRUE)]
  /\ dPlan = <<>>
  /\ dpc = "call"
  /\ ValidateOff
  /\ answer = NoAnswer
  /\ ParseOff

CallDistribute ==
  /\ dpc = "call"
  /\ dPlan' = distributeTasksRoundRobin(dTasks, dAgents)
  /\ dpc' = "return"
  /\ UNCHANGED <<users, tasks, staging, clock, handlerVars, dTasks, dAgents,
                 validateVars, answer, parseVars>>

SpecDist == InitDist /\ [][CallDistribute]_vars

\* ------------------------------------------- the validator alone
kFIRSTNAME == <<"F", "I", "R", "S", "T", "N", "A", "M", "E">>
kPaddedPhone == <<" ", "P", "h", "o", "n", "e", " ">>

\* the headers of the inputs: the documented one, the lower-case one, one in
\* capitals and between blanks, one without the phone, one with a fourth
\* column, one with the first name under two spellings, and one that both
\* lacks columns and has a column too many
Headers ==
  {<<kFirstName, kPhone, kNotes>>,
   <<kfirstname, kphone, knotes>>,
   <<kFIRSTNAME, kPaddedPhone, kNOTES>>,
   <<kFirstName, kNotes>>,
   <<kFirstName, kPhone, kNotes, kMobile>>,
   <<kFirstName, kfirstname, kPhone, kNotes>>,
   <<kFirstName, kMobile>>}

\* the logical column a header name stands for: its lower-case, trimmed form
Logical(key) == trim(toLowerCase(key))

\* the cells a column may hold, by the logical column
FirstNameCells == {Str(<<" ", "A", " ">>), Str(<<>>)}
PhoneCells == {Str(<<"1", "2", " ">>), Str(<<"1", "a">>), Str(<<>>)}
NotesCells ==
  {Str(<<"n", " ">>), Str(<<>>), [t |-> "bool", v |-> <<"t", "r", "u", "e">>]}

\* the row under the header whose cells are f, p and n in the columns that
\* stand for the first name, the phone and the notes
InputRow(header, f, p, n) ==
  [i \in 1..Len(header) |->
     [k |-> header[i],
      v |-> CASE Logical(header[i]) = kfirstname -> f
              [] Logical(header[i]) = kphone -> p
              [] Logical(header[i]) = knotes -> n
              [] OTHER -> Str(<<"x">>)]]

InputRows(header) ==
  {InputRow(header, f, p, n) :
     f \in FirstNameCells, p \in PhoneCells, n \in NotesCells}

\* the inputs of the validator: up to MaxRows rows under one of the headers
ValidateInputs ==
  UNION {[1..n -> InputRows(header)] : n \in 0..MaxRows, header \in Headers}

InitValidate ==
  /\ users = [a \in Agents |-> AgentDoc(a, TRUE)]
  /\ HandlerInit
  /\ DistOff
  /\ vData \in ValidateInputs
  /\ vResult = <<>>
  /\ vpc = "call"
  /\ answer = NoAnswer
  /\ ParseOff

\* validateCSVFormat(data), and data.map of the normaliser when it is valid
CallValidate ==
  /\ vpc = "call"
  /\ LET validation == validateCSVFormat(vData)
     IN  vResult' = [validation |-> validation,
                     normalized |-> IF validation.isValid
                                    THEN normalizedData(vData) ELSE <<>>]
  /\ vpc' = "return"
  /\ UNCHANGED <<users, tasks, staging, clock, handlerVars, distVars, vData,
                 answer, parseVars>>

SpecValidate == InitValidate /\ [][CallValidate]_vars

\* --------------------------------------------------- the parsers alone
\* csv-parser: the cells of a line under the names of the header, as far as
\* the line has cells
CsvRow(header, cells) ==
  [i \in 1..(IF Len(cells) < Len(header) THEN Len(cells) ELSE Len(header)) |->
     [k |-> header[i], v |-> Str(cells[i])]]

\* XLSX.utils.sheet_to_json without defval: the cells of a sheet row that are
\* not empty, under the names of the header
SheetRow(header, cells) ==
  LET at == SelectSeq([i \in 1..Len(header) |-> i],
                      LAMBDA i : i <= Len(cells) /\ cells[i] # <<>>)
  IN  [j \in 1..Len(at) |-> [k |-> header[at[j]], v |-> Str(cells[at[j]])]]

\* the rows the parser of the file's kind makes of its lines; the sheet
\* reader leaves out the rows without any cell
ParseLines(file) ==
  IF file.kind = "csv"
  THEN [i \in 1..Len(file.lines) |-> CsvRow(file.header, file.lines[i])]
  ELSE SelectSeq([i \in 1..Len(file.lines) |-> SheetRow(file.header, file.lines[i])],
                 LAMBDA row : row # <<>>)

\* the inputs of the parsers: a CSV file or the first sheet of a workbook
\* with the documented header and up to MaxRows lines under it; a line holds
\* a first name, a phone that is well formed or has a letter, and a notes
\* cell that holds text, is empty, is blank, or is not there at all
ParseInputs ==
  LET NotesLines ==
        {<<<<"A">>, p>> \o n :
           p \in {<<"+", "1", " ", "2">>, <<"1", "a">>},
           n \in {<<<<"n", " ">>>>, <<<<>>>>, <<<<" ">>>>, <<>>}}
  IN  {[kind |-> kind, header |-> <<kFirstName, kPhone, kNotes>>, lines |-> lines] :
         kind \in {"csv", "xlsx"},
         lines \in UNION {[1..n -> NotesLines] : n \in 1..MaxRows}}

InitParse ==
  /\ users = [a \in Agents |-> AgentDoc(a, TRUE)]
  /\ HandlerInit
  /\ DistOff
  /\ ValidateOff
  /\ answer = NoAnswer
  /\ pFile \in ParseInputs
  /\ pResult = <<>>
  /\ ppc = "call"

\* the parser of the file's kind, validateCSVFormat on its rows, and data.map
\* of the normaliser when they are valid
CallParse ==
  /\ ppc = "call"
  /\ LET rows == ParseLines(pFile)
         validation == validateCSVFormat(rows)
     IN  pResult' = [rows |-> rows,
                     validation |-> validation,
                     normalized |-> IF validation.isValid
                                    THEN normalizedData(rows) ELSE <<>>]
  /\ ppc' = "return"
  /\ UNCHANGED <<users, tasks, staging, clock, handlerVars, distVars,
                 validateVars, answer, pFile>>

SpecParse == InitParse /\ [][CallParse]_vars

\* ------------------------------------------------ the history reporter
\* the user document of the administrator
AdminDoc ==
  [_id |-> AdminId, name |-> <<"N", AdminId>>, email |-> <<AdminId, "@x">>,
   role |-> "admin", isActive |-> TRUE]

\* the users collection: the administrator, then the agents it still holds
UsersCollection(u) ==
  LET ids == SelectSeq(AgentOrder, LAMBDA a : a \in DOMAIN u)
  IN  <<AdminDoc>> \o [i \in 1..Len(ids) |-> u[ids[i]]]

\* $match: { 'metadata.fileName': { $exists: true } }
MatchUploaded(store) ==
  SelectSeq(store, LAMBDA t : "fileName" \in DOMAIN t.metadata)

\* the _id expression of $group
GroupId(t) ==
  [fileName |-> t.metadata.fileName, uploadedAt |-> t.metadata.uploadedAt]

\* the distinct group ids of the documents, in the order of their first document
RECURSIVE GroupIds(_, _)
GroupIds(docs, seen) ==
  IF docs = <<>> THEN seen
  ELSE GroupIds(Tail(docs),
                IF Includes(seen, GroupId(Head(docs))) THEN seen
                ELSE Append(seen, GroupId(Head(docs))))

\* $sum: { $cond: [{ $eq: ['$status', status] }, 1, 0] }
SumStatus(docs, status) == Len(SelectSeq(docs, LAMBDA t : t.status = status))

\* an accumulator that counts the tasks that are not pending as completed
Group_countsStarted(docs, id) ==
  LET members == SelectSeq(docs, LAMBDA t : GroupId(t) = id)
  IN  [_id |-> id,
       totalTasks |-> Len(members),
       completedTasks |-> Len(members) - SumStatus(members, "pending"),
       pendingTasks |-> SumStatus(members, "pending"),
       inProgressTasks |-> SumStatus(members, "in-progress"),
       assignedBy |-> members[1].assignedBy,
       agents |-> {members[i].agentId : i \in 1..Len(members)}]

\* $group: one document per group id with its accumulators
Group(docs, id) ==
  LET members == SelectSeq(docs, LAMBDA t : GroupId(t) = id)
  IN  [_id |-> id,
       totalTasks |-> Len(members),
       completedTasks |-> SumStatus(members, "completed"),
       pendingTasks |-> SumStatus(members, "pending"),
       inProgressTasks |-> SumStatus(members, "in-progress"),
       assignedBy |-> members[1].assignedBy,
       agents |-> {members[i].agentId : i \in 1..Len(members)}]

\* $lookup: the documents of the collection whose _id is one of ids
Lookup(collection, ids) == SelectSeq(collection, LAMBDA d : d._id \in ids)

RECURSIVE Gcd(_, _)
Gcd(a, b) == IF b = 0 THEN a ELSE Gcd(b, a % b)

\* a number as a fraction in lowest terms (rounding to a double is left out)
Fraction(n, d) ==
  LET g == Gcd(n, d) IN [num |-> n \div g, den |-> d \div g]

\* $divide of two integers
Divide(a, b) == Fraction(a, b)

\* $multiply of a number by an integer
Multiply(q, k) == Fraction(q.num * k, q.den)

\* $project applied to a group document after the two $lookup stages
Project(g, collection) ==
  LET uploadedBy == Lookup(collection, {g.assignedBy})
      assignedAgents == Lookup(collection, g.agents)
  IN  [_id |-> g._id,
       fileName |-> g._id.fileName,
       uploadedAt |-> g._id.uploadedAt,
       totalTasks |-> g.totalTasks,
       completedTasks |-> g.completedTasks,
       pendingTasks |-> g.pendingTasks,
       inProgressTasks |-> g.inProgressTasks,
       completionRate |-> Multiply(Divide(g.completedTasks, g.totalTasks), 100),
       uploadedBy |-> IF uploadedBy = <<>> THEN Undefined
                      ELSE Str(uploadedBy[1].name),
       agentsCount |-> Len(assignedAgents),
       assignedAgents |-> [i \in 1..Len(assignedAgents) |->
                             [name |-> assignedAgents[i].name,
                              email |-> assignedAgents[i].email]]]

\* a sorted list of [key, doc] pairs with one more pair put in its place,
\* behind the pairs of the same key
RECURSIVE Insert(_, _)
Insert(sorted, p) ==
  IF sorted = <<>> THEN <<p>>
  ELSE IF p.key < Head(sorted).key THEN <<p>> \o sorted
  ELSE <<Head(sorted)>> \o Insert(Tail(sorted), p)

\* the pairs in ascending order of their keys; pairs of the same key keep
\* the order the stage received them in
RECURSIVE SortByKey(_)
SortByKey(pairs) ==
  IF pairs = <<>> THEN <<>>
  ELSE Insert(SortByKey(SubSeq(pairs, 1, Len(pairs) - 1)), pairs[Len(pairs)])

\* $sort: { uploadedAt: -1 }
SortUploadedAtDesc(docs) ==
  LET sorted == SortByKey([i \in 1..Len(docs) |->
                             [key |-> 0 - docs[i].uploadedAt, doc |-> docs[i]]])
  IN  [i \in 1..Len(sorted) |-> sorted[i].doc]

\* Task.aggregate([...]) of router.get('/history')
UploadHistory(store, u) ==
  LET matched == MatchUploaded(store)
      ids == GroupIds(matched, <<>>)
  IN  SortUploadedAtDesc([i \in 1..Len(ids) |->
                            Project(Group(matched, ids[i]), UsersCollection(u))])

\* .populate(path, 'name email'): the referenced user, or null when it is gone
Populate(collection, id) ==
  LET found == Lookup(collection, {id})
  IN  IF found = <<>> THEN Undefined
      ELSE [_id |-> found[1]._id, name |-> found[1].name,
            email |-> found[1].email]

\* .sort({ createdAt: 1 })
SortCreatedAtAsc(docs) ==
  LET sorted == SortByKey([i \in 1..Len(docs) |->
                             [key |-> docs[i].createdAt, doc |-> docs[i]]])
  IN  [i \in 1..Len(sorted) |-> sorted[i].doc]

\* Task.find({ 'metadata.fileName': fileName })
Find(store, fileName) ==
  SelectSeq(store, LAMBDA t : /\ "fileName" \in DOMAIN t.metadata
                              /\ t.metadata.fileName = fileName)

\* the query of router.get('/history/:fileName')
UploadDetails(store, fileName, u) ==
  LET found == SortCreatedAtAsc(Find(store, fileName))
  IN  [i \in 1..Len(found) |->
         [found[i] EXCEPT !.agentId = Populate(UsersCollection(u), @),
                          !.assignedBy = Populate(UsersCollection(u), @)]]

\* the values of the status field the task schema allows
StatusEnum == {"pending", "in-progress", "completed", "cancelled"}

\* router.put('/:id') of the tasks route with a status in the body: the task
\* takes the status, and the time of completion when the status is completed
UpdateTaskStatus(id, status) ==
  /\ id \in 1..Len(tasks)
  /\ id <= MaxTaskId
  /\ LET task == tasks[id]
         saved == IF status = "completed"
                  THEN [completedAt |-> clock] @@ [task EXCEPT !.status = status]
                  ELSE [task EXCEPT !.status = status]
     IN  tasks' = [tasks EXCEPT ![id] = saved]
  /\ UNCHANGED <<users, staging, clock, handlerVars, sideVars>>

\* a history query that marks the tasks it has reported as cancelled
GetHistory_marksTasks ==
  /\ answer' = [kind |-> "history", fileName |-> <<>>,
                result |-> UploadHistory(tasks, users)]
  /\ tasks' = [i \in 1..Len(tasks) |-> [tasks[i] EXCEPT !.status = "cancelled"]]
  /\ UNCHANGED <<users, staging, clock, handlerVars, distVars, validateVars,
                 parseVars>>

\* router.get('/history'): the store answers the aggregation
GetHistory ==
  /\ answer' = [kind |-> "history", fileName |-> <<>>,
                result |-> UploadHistory(tasks, users)]
  /\ UNCHANGED <<users, tasks, staging, clock, handlerVars, distVars,
                 validateVars, parseVars>>

\* router.get('/history/:fileName'): the store answers the query
GetUploadDetails(fileName) ==
  /\ answer' = [kind |-> "details", fileName |-> fileName,
                result |-> UploadDetails(tasks, fileName, users)]
  /\ UNCHANGED <<users, tasks, staging, clock, handlerVars, distVars,
                 validateVars, parseVars>>

\* the for..of loop of router.post('/') from position p of the plan, run to
\* its end at one instant: the store, the created tasks and the counters
RECURSIVE CreateLoop(_, _, _, _, _, _)
CreateLoop(store, created, counts, plan, p, ctx) ==
  IF p > Len(plan) THEN [tasks |-> store, created |-> created, counts |-> counts]
  ELSE LET doc == TaskDoc(store, TaskData(plan[p], ctx.file, ctx.user, ctx.now),
                          ctx.now)
       IN  CreateLoop(Append(store, doc), Append(created, doc),
                      CountTask(counts, plan[p]), plan, p + 1, ctx)

\* the first request has uploaded the well-formed file at time 0 with every
\* agent active, and has been answered; the administrator may have switched
\* agents off since; the second request has not arrived
InitStatus ==
  LET f == GoodFile(MaxRows)
      path == StagingPath(0, f.originalname)
      file == [present |-> TRUE, originalname |-> f.originalname,
               mimetype |-> f.mimetype, path |-> path]
      ag == ActiveAgents([a \in Agents |-> AgentDoc(a, TRUE)])
      plan == distributeTasksRoundRobin(normalizedData(f.rows), ag)
      run == CreateLoop(<<>>, <<>>, <<>>, plan, 1,
                        [file |-> file, user |-> AdminId, now |-> 0])
      first == RunOrder[1]
  IN  /\ users \in {[a \in Agents |-> AgentDoc(a, a \in S)] : S \in SUBSET Agents}
      /\ tasks = run.tasks
      /\ staging = CleanUp(WriteFile(<<>>, path, f), path)
      /\ clock = 0
      /\ pc = [r \in Runs |-> IF r = first THEN "done" ELSE "idle"]
      /\ req = [r \in Runs |->
                  [file |-> IF r = first THEN file ELSE NoFile, user |-> AdminId,
                   body |-> IF r = first THEN f ELSE NoFile]]
      /\ data = [r \in Runs |-> IF r = first THEN f.rows ELSE <<>>]
      /\ agents = [r \in Runs |-> IF r = first THEN Arr(ag) ELSE Undefined]
      /\ distribution = [r \in Runs |-> IF r = first THEN Arr(plan) ELSE Undefined]
      /\ pos = [r \in Runs |-> IF r = first THEN Len(plan) ELSE 0]
      /\ taskData = [r \in Runs |->
                       IF r = first
                       THEN TaskData(plan[Len(plan)], file, AdminId, 0)
                       ELSE Undefined]
      /\ createdTasks = [r \in Runs |-> IF r = first THEN run.created ELSE <<>>]
      /\ agentTaskCounts = [r \in Runs |-> IF r = first THEN run.counts ELSE <<>>]
      /\ response = [r \in Runs |->
                       IF r = first
                       THEN SuccessResponse(file, Len(f.rows), ag, run.counts,
                                            run.created, 0)
                       ELSE NoResponse]
      /\ DistOff
      /\ ValidateOff
      /\ answer = NoAnswer
      /\ ParseOff

\* router.delete('/:id') of the agents route: the user document is removed,
\* the tasks that refer to it stay
DeleteAgent(a) ==
  /\ a \in DOMAIN users
  /\ users[a].role = "agent"
  /\ users' = [b \in (DOMAIN users) \ {a} |-> users[b]]
  /\ UNCHANGED <<tasks, staging, clock, handlerVars, sideVars>>

NextStatus ==
  \/ Next
  \/ \E id \in 1..Len(tasks), status \in StatusEnum : UpdateTaskStatus(id, status)

\* a second upload while the tasks of the first are being worked on
SpecStatus == InitStatus /\ [][NextStatus]_vars

NextQuery ==
  \/ Next
  \/ GetHistory
  \/ \E fileName \in {f.originalname : f \in Files} : GetUploadDetails(fileName)

\* a second upload while the administrator reads the history
SpecQuery == InitStatus /\ [][NextQuery]_vars

NextDelete ==
  \/ Next
  \/ \E a \in Agents : DeleteAgent(a)

\* a second upload while the administrator deletes agents
SpecDelete == InitStatus /\ [][NextDelete]_vars

\* ====================================================== properties
\* C1: for n >= 0 records and a roster of w >= 1 agents, the plan of
\* distributeTasksRoundRobin holds every record exactly once, and the bucket
\* sizes of the roster's agents sum to n.
C1_EveryRecordOnce ==
  dpc = "return" =>
    /\ \A i \in 1..Len(dTasks) :
         Cardinality({j \in 1..Len(dPlan) : dPlan[j].task = dTasks[i]}) = 1
    /\ \A j \in 1..Len(dPlan) : \E i \in 1..Len(dTasks) : dPlan[j].task = dTasks[i]
    /\ Cardinality({kj \in (1..Len(dAgents)) \X (1..Len(dPlan)) :
                      dPlan[kj[2]].agentId = dAgents[kj[1]]._id}) = Len(dTasks)

C1_Witness ==
  /\ dpc = "return"
  /\ Len(dTasks) = MaxRecords
  /\ Len(dAgents) = 2
  /\ Len(dPlan) = MaxRecords

\* C2: record i (0-based) is given to roster[i mod w], and the records of one
\* agent keep their relative input order in the plan.
C2_RoundRobinOrder ==
  dpc = "return" =>
    /\ \A i \in 1..Len(dTasks) :
         \A j \in 1..Len(dPlan) :
           dPlan[j].task = dTasks[i] =>
             dPlan[j].agentId = dAgents[((i - 1) % Len(dAgents)) + 1]._id
    /\ \A i \in 1..Len(dTasks) : \E j \in 1..Len(dPlan) : dPlan[j].task = dTasks[i]
    /\ \A j, k \in 1..Len(dPlan) :
         (j < k /\ dPlan[j].agentId = dPlan[k].agentId) =>
           \A a, b \in 1..Len(dTasks) :
             (dTasks[a] = dPlan[j].task /\ dTasks[b] = dPlan[k].task) => a < b

C2_Witness ==
  /\ dpc = "return"
  /\ Len(dAgents) = 3
  /\ Len(dTasks) >= 4
  /\ dPlan[4].agentId = dAgents[1]._id
  /\ dPlan[1].agentId = dAgents[1]._id

\* C3: every bucket has floor(n/w) or floor(n/w)+1 records, exactly the first
\* n mod w agents of the roster have the larger size, two buckets differ by at
\* most one, and an earlier agent never has fewer records than a later one.
C3_BalancedBuckets ==
  dpc = "return" =>
    LET n == Len(dTasks)
        w == Len(dAgents)
        size(k) == Cardinality({j \in 1..Len(dPlan) :
                                  dPlan[j].agentId = dAgents[k]._id})
    IN  /\ \A k \in 1..w : size(k) \in {n \div w, (n \div w) + 1}
        /\ \A k \in 1..w : (size(k) = (n \div w) + 1) <=> (k <= n % w)
        /\ \A k, l \in 1..w : size(k) - size(l) <= 1
        /\ \A k, l \in 1..w : k < l => size(k) >= size(l)

C3_Witness ==
  /\ dpc = "return"
  /\ Len(dAgents) = 3
  /\ Len(dTasks) = 4
  /\ Cardinality({j \in 1..Len(dPlan) : dPlan[j].agentId = dAgents[1]._id}) = 2
  /\ Cardinality({j \in 1..Len(dPlan) : dPlan[j].agentId = dAgents[3]._id}) = 1

\* C4: all tasks created by one run carry the same metadata.fileName and the
\* same metadata.uploadedAt, also when the clock advances during the run.
C4_SharedProvenance ==
  \A r \in Runs :
    \A i, j \in 1..Len(createdTasks[r]) :
      /\ createdTasks[r][i].metadata.fileName = createdTasks[r][j].metadata.fileName
      /\ createdTasks[r][i].metadata.uploadedAt = createdTasks[r][j].metadata.uploadedAt

\* C5: in the step that sends the response of a request that carried a file,
\* whatever the exit path, the staging file of the request does not exist.
C5_StagingRemovedAtResponse ==
  [][\A r \in Runs :
       (response[r].status = 0 /\ response'[r].status # 0 /\ req[r].file.present)
         => req[r].file.path \notin DOMAIN staging']_vars

C5_Witness ==
  \E r, q \in Runs :
    /\ response[r].status = 200
    /\ response[q].status = 500
    /\ req[r].file.present /\ req[q].file.present
    /\ req[r].file.path \notin DOMAIN staging
    /\ req[q].file.path \notin DOMAIN staging

C7_EmptyRosterRejected ==
  [][\A r \in Runs :
       (pc[r] = "find" /\ agents'[r] = Arr(<<>>))
         => /\ response'[r].status = 400
            /\ response'[r].message = "No active agents available"
            /\ pc'[r] = "done"
            /\ distribution'[r] = Undefined
            /\ createdTasks'[r] = <<>>
            /\ tasks' = tasks
            /\ req[r].file.path \notin DOMAIN staging']_vars

C7_Witness ==
  \E r, q \in Runs :
    /\ pc[r] = "done"
    /\ agents[r] = Arr(<<>>)
    /\ response[r].status = 400
    /\ Len(data[r]) >= 1
    /\ validateCSVFormat(data[r]).isValid
    /\ agents[q].t = "array"
    /\ Len(agents[q].v) >= 1
    /\ Len(createdTasks[q]) >= 1

\* C8: a successful upload of n rows creates exactly n tasks with the
\* originalRow values 1..n, each once, and the firstName, phone and notes of a
\* task are the trimmed cells of those columns in the row at its originalRow.
C8_RoundTrip ==
  \A r \in Runs :
    response[r].status = 200 =>
      LET n == Len(data[r])
          created == createdTasks[r]
          cell(row, field) ==
            LET ks == {i \in 1..Len(row) :
                         trim(toLowerCase(row[i].k)) = toLowerCase(field)}
            IN  IF ks = {} THEN <<>>
                ELSE trim(toString(row[CHOOSE i \in ks : TRUE].v))
      IN  /\ Len(created) = n
          /\ \A k \in 1..n :
               Cardinality({j \in 1..Len(created) :
                              created[j].metadata.originalRow = k}) = 1
          /\ \A j \in 1..Len(created) :
               LET m == created[j].metadata
               IN  /\ m.originalRow \in 1..n
                   /\ m.firstName = cell(data[r][m.originalRow], kFirstName)
                   /\ m.phone = cell(data[r][m.originalRow], kPhone)
                   /\ m.notes = cell(data[r][m.originalRow], kNotes)

\* C9: when Task.create fails during the loop, the response has status 500,
\* the tasks the run created before are in the store as created, and the
\* store holds no other task of the run.
C9_PartialFailureKeepsTasks ==
  \A r \in Runs :
    (/\ pc[r] = "done"
     /\ distribution[r] # Undefined
     /\ Len(createdTasks[r]) < Len(distribution[r].v))
    => /\ response[r].status = 500
       /\ Len(createdTasks[r]) = pos[r] - 1
       /\ \A j \in 1..Len(createdTasks[r]) :
            /\ createdTasks[r][j]._id \in 1..Len(tasks)
            /\ tasks[createdTasks[r][j]._id] = createdTasks[r][j]
            /\ createdTasks[r][j].metadata.originalRow =
                 distribution[r].v[j].task.originalRow
       /\ Cardinality({i \in 1..Len(tasks) :
             ~\E q \in Runs \ {r} : \E j \in 1..Len(createdTasks[q]) :
                createdTasks[q][j] = tasks[i]}) = Len(createdTasks[r])

C9_Witness ==
  \E r \in Runs :
    /\ pc[r] = "done"
    /\ response[r].status = 500
    /\ distribution[r] # Undefined
    /\ Len(distribution[r].v) = 2
    /\ Len(createdTasks[r]) = 1
    /\ Len(tasks) >= 2

\* C10: the success response is sent in a step after which all n tasks of the
\* run are in the store, and once a run has been answered it creates no task.
C10_NoTaskAfterResponse ==
  [][\A r \in Runs :
       /\ (response[r].status = 0 /\ response'[r].status = 200)
            => /\ Len(createdTasks'[r]) = Len(data'[r])
               /\ \A j \in 1..Len(createdTasks'[r]) :
                    /\ createdTasks'[r][j]._id \in 1..Len(tasks')
                    /\ tasks'[createdTasks'[r][j]._id] = createdTasks'[r][j]
       /\ response[r].status # 0
            => /\ createdTasks'[r] = createdTasks[r]
               /\ response'[r] = response[r]
               /\ pc'[r] = "done"
               /\ tasks' # tasks =>
                    \E q \in Runs \ {r} : createdTasks'[q] # createdTasks[q]]_vars

C10_Witness ==
  \E r, q \in Runs :
    /\ response[r].status = 200
    /\ Len(createdTasks[r]) = 2
    /\ pc[q] = "create"
    /\ Len(tasks) > Len(createdTasks[r])

\* the requests that have been answered with success
SuccessfulRuns == {r \in Runs : pc[r] = "done" /\ response[r].status = 200}

\* no request is in flight and none has failed
OnlySuccessfulUploads ==
  \A r \in Runs : pc[r] = "idle" \/ r \in SuccessfulRuns

\* C11: when every upload so far has succeeded, the history report has exactly
\* one cohort per upload run, holding the tasks of that run and no others, and
\* its totalTasks is the number of tasks the run created.
C11_OneCohortPerRun ==
  LET report == UploadHistory(tasks, users)
  IN  OnlySuccessfulUploads =>
        /\ Len(report) = Cardinality(SuccessfulRuns)
        /\ \A r \in SuccessfulRuns :
             \E i \in 1..Len(report) :
               /\ report[i].totalTasks = Len(createdTasks[r])
               /\ \A j \in 1..Len(createdTasks[r]) :
                    GroupId(createdTasks[r][j]) = report[i]._id

\* C12: a second upload under a file name already used does not deduplicate.
\* No step of the upload handler changes or removes a stored task, and the
\* step that answers the second upload with success leaves its n new tasks in
\* the store beside the tasks of the earlier upload, whose assignment and
\* provenance are as the earlier upload created them.
C12_ReuploadAddsTasks ==
  [][handlerVars' # handlerVars =>
       /\ Len(tasks') >= Len(tasks)
       /\ SubSeq(tasks', 1, Len(tasks)) = tasks
       /\ \A r \in Runs, q \in SuccessfulRuns :
            ( /\ response[r].status = 0
              /\ response'[r].status = 200
              /\ req[q].file.originalname = req[r].file.originalname )
            => /\ Len(createdTasks'[r]) = Len(data[r])
               /\ Len(tasks') >= Len(createdTasks[q]) + Len(data[r])
               /\ \A j \in 1..Len(createdTasks'[r]) :
                    /\ Includes(tasks', createdTasks'[r][j])
                    /\ \A k \in 1..Len(createdTasks[q]) :
                         createdTasks'[r][j]._id # createdTasks[q][k]._id
               /\ \A k \in 1..Len(createdTasks[q]) :
                    \E i \in 1..Len(tasks') :
                      /\ tasks'[i]._id = createdTasks[q][k]._id
                      /\ tasks'[i].agentId = createdTasks[q][k].agentId
                      /\ tasks'[i].metadata = createdTasks[q][k].metadata]_vars

\* the second upload of a.csv has succeeded after a task of the first upload
\* was completed: the store holds the tasks of both
C12_Witness ==
  /\ SuccessfulRuns = Runs
  /\ \A r \in Runs : req[r].file.originalname = GoodFile(MaxRows).originalname
  /\ Len(tasks) = 2 * MaxRows
  /\ tasks[1].status = "completed"

\* the ids of the documents of a list, in its order
Ids(docs) == [i \in 1..Len(docs) |-> docs[i]._id]

\* C13: when every upload so far has succeeded, the detail query asked for the
\* upload of a run returns exactly the tasks that run created, in the order of
\* their creation, also when another run has uploaded the same file name.
C13_DetailsOfOneUpload ==
  OnlySuccessfulUploads =>
    \A r \in SuccessfulRuns :
      Ids(UploadDetails(tasks, req[r].file.originalname, users))
        = Ids(createdTasks[r])

\* the positions in the store of the tasks that carry the provenance pair
CohortOf(fileName, uploadedAt) ==
  {i \in 1..Len(tasks) : /\ tasks[i].metadata.fileName = fileName
                         /\ tasks[i].metadata.uploadedAt = uploadedAt}

\* C14: every cohort of the history report counts at least one task,
\* its completedTasks is the number of its tasks whose status is completed,
\* and its completionRate is completedTasks / totalTasks x 100; every stored
\* task is counted in a cohort.
C14_CompletionRate ==
  LET report == UploadHistory(tasks, users)
  IN  /\ \A i \in 1..Len(report) :
           LET c == report[i]
               members == CohortOf(c.fileName, c.uploadedAt)
               completed == {m \in members : tasks[m].status = "completed"}
           IN  /\ c.totalTasks = Cardinality(members)
               /\ c.totalTasks >= 1
               /\ c.completedTasks = Cardinality(completed)
               /\ c.completionRate.den >= 1
               /\ c.completionRate.num * c.totalTasks
                    = 100 * c.completedTasks * c.completionRate.den
      /\ \A m \in 1..Len(tasks) :
           \E i \in 1..Len(report) :
             m \in CohortOf(report[i].fileName, report[i].uploadedAt)

\* a cohort of two uploads of a.csv at the same instant with one task
\* completed and the others pending (for files of two rows: 4 tasks,
\* 1 completed, rate 25)
C14_Witness ==
  \E i \in 1..Len(UploadHistory(tasks, users)) :
    LET c == UploadHistory(tasks, users)[i]
    IN  /\ c.totalTasks = 2 * MaxRows
        /\ c.completedTasks = 1
        /\ c.pendingTasks = c.totalTasks - 1
        /\ c.completionRate.num * 2 * MaxRows = 100 * c.completionRate.den

HasPhoneColumn(header) ==
  \E i \in 1..Len(header) : trim(toLowerCase(header[i])) = toLowerCase(kPhone)

\* the text of the error holds the word phone, in any letter case: the two
\* row messages about the phone, the missing-columns message when it lists
\* Phone, and the unexpected-columns message, which ends with "Only
\* FirstName, Phone, and Notes are allowed."
MentionsPhone(e) ==
  \/ e.msg \in {"Phone is required", "Phone number format is invalid",
                "Unexpected columns found"}
  \/ /\ e.msg = "Missing required columns"
     /\ \E i \in 1..Len(e.cols) : toLowerCase(e.cols[i]) = toLowerCase(kPhone)

\* the handler of r reads a readable file from the staging path in this step
Reads(r) ==
  /\ pc[r] = "parse"
  /\ pc'[r] # "parse"
  /\ req[r].file.path \in DOMAIN staging
  /\ ~staging[req[r].file.path].corrupt

\* the step rejects the upload of r with the validation errors, creates no
\* task, and answers as the earlier uploads of the same file were answered
RejectsAlike(r) ==
  /\ response'[r].status = 400
  /\ response'[r].success = FALSE
  /\ tasks' = tasks
  /\ createdTasks'[r] = <<>>
  /\ \A q \in Runs \ {r} :
       ( /\ pc[q] = "done"
         /\ req[q].file.present
         /\ req[q].file.originalname = req[r].file.originalname )
       => response'[r] = response[q]

\* C16 as stated: a file whose header lacks the phone column, whatever the
\* number of its rows, is rejected with an error that mentions phone, no task
\* is created, and the same file submitted again is rejected alike.
C16_NoPhoneColumnRejected ==
  [][\A r \in Runs :
       (Reads(r) /\ ~HasPhoneColumn(staging[req[r].file.path].header))
       => /\ RejectsAlike(r)
          /\ \E i \in 1..Len(response'[r].errors) :
               MentionsPhone(response'[r].errors[i])]_vars

\* C16 amended: a file of at least one row whose header lacks the phone
\* column is rejected with an error that mentions phone, no task is created,
\* and the same file submitted again is rejected alike.
C16_NoPhoneColumnWithRowsRejected ==
  [][\A r \in Runs :
       ( /\ Reads(r)
         /\ ~HasPhoneColumn(staging[req[r].file.path].header)
         /\ Len(staging[req[r].file.path].rows) >= 1 )
       => /\ RejectsAlike(r)
          /\ \E i \in 1..Len(response'[r].errors) :
               MentionsPhone(response'[r].errors[i])]_vars

\* the file of MaxRows rows without a phone column was submitted twice and
\* rejected twice with the same answer, which lists Phone as missing
C16_Witness ==
  /\ \A r \in Runs :
       /\ pc[r] = "done"
       /\ req[r].file.present
       /\ req[r].file.originalname = NoPhoneFile(MaxRows, FALSE).originalname
       /\ response[r].status = 400
       /\ response[r].errors[1] = Err("Missing required columns", 0, <<kPhone>>)
       /\ Len(response[r].errors) = 1 + MaxRows
  /\ response["r1"] = response["r2"]
  /\ tasks = <<>>

\* the value is an optional leading '+' followed by one or more digits,
\* spaces, hyphens or parentheses
MatchesPhonePattern(s) ==
  \/ /\ Len(s) >= 1
     /\ \A i \in 1..Len(s) : s[i] \in DigitChars \cup {" ", "-", "(", ")"}
  \/ /\ Len(s) >= 2
     /\ s[1] = "+"
     /\ \A i \in 2..Len(s) : s[i] \in DigitChars \cup {" ", "-", "(", ")"}

\* the characters of the phone cell of a row (none when the row has no cell)
PhoneValue(row) == toString(OrElse(Get(row, kPhone), Get(row, kphone)))

\* the step rejects the upload of r with an error that names row i, and no
\* task is created for any row
RejectsRow(r, i) ==
  /\ response'[r].status = 400
  /\ response'[r].success = FALSE
  /\ \E k \in 1..Len(response'[r].errors) :
       /\ response'[r].errors[k].row = i
       /\ response'[r].errors[k].msg \in
            {"Phone is required", "Phone number format is invalid"}
  /\ tasks' = tasks
  /\ createdTasks'[r] = <<>>
  /\ pc'[r] = "done"

\* C17 as stated: when the phone value of a row does not match the pattern,
\* the upload is rejected with an error naming that row and no task is
\* created for any row.
C17_BadPhoneBlocksBatch ==
  [][\A r \in Runs :
       Reads(r) =>
         \A i \in 1..Len(staging[req[r].file.path].rows) :
           ~MatchesPhonePattern(PhoneValue(staging[req[r].file.path].rows[i]))
             => RejectsRow(r, i)]_vars

\* C17 amended: when the phone value of a row, with the blanks around it
\* trimmed, does not match the pattern, the upload is rejected with an error
\* naming that row and no task is created for any row.
C17_BadTrimmedPhoneBlocksBatch ==
  [][\A r \in Runs :
       Reads(r) =>
         \A i \in 1..Len(staging[req[r].file.path].rows) :
           ~MatchesPhonePattern(trim(PhoneValue(staging[req[r].file.path].rows[i])))
             => RejectsRow(r, i)]_vars

\* a file whose last row alone has a letter in the phone was rejected with
\* exactly one error, which names that row, while the store holds the tasks
\* of another upload only
C17_Witness ==
  \E r \in Runs :
    /\ pc[r] = "done"
    /\ data[r] = BadPhoneAt(MaxRows, <<"1", "a">>).rows
    /\ response[r].status = 400
    /\ response[r].errors =
         <<Err("Phone number format is invalid", MaxRows, <<>>)>>
    /\ createdTasks[r] = <<>>
    /\ Len(tasks) = MaxRows

\* the number of errors of the list that name the row with the message
CountErrors(errors, row, msg) ==
  Cardinality({k \in 1..Len(errors) : errors[k].row = row /\ errors[k].msg = msg})

\* the required columns that no column of the first row stands for
AbsentColumns(input) ==
  SelectSeq(requiredFields,
    LAMBDA field : \A k \in 1..Len(input[1]) :
                     Logical(input[1][k].k) # toLowerCase(field))

\* the columns of the first row that stand for none of the three
ExtraColumns(input) ==
  SelectSeq(ObjectKeys(input[1]),
    LAMBDA key : Logical(key) \notin {kfirstname, kphone, knotes})

\* the cell is absent, empty or blank
Blank(cell) == ~Truthy(cell) \/ trim(toString(cell)) = <<>>

\* the messages of the per-row rules
RowMessages ==
  {"FirstName is required", "Phone is required",
   "Phone number format is invalid", "Notes must be text"}

\* the per-row rules the row violates, by their messages, with the cells read
\* under the spellings the validator reads them under
Violated(row) ==
  LET firstName == OrElse(OrElse(Get(row, kFirstName), Get(row, kfirstname)),
                          Get(row, kFirstname))
      phone == OrElse(Get(row, kPhone), Get(row, kphone))
      notes == OrElse(Get(row, kNotes), Get(row, knotes))
  IN  {m \in RowMessages :
         \/ m = "FirstName is required" /\ Blank(firstName)
         \/ m = "Phone is required" /\ Blank(phone)
         \/ /\ m = "Phone number format is invalid"
            /\ ~Blank(phone)
            /\ ~MatchesPhonePattern(trim(toString(phone)))
         \/ m = "Notes must be text" /\ Truthy(notes) /\ notes.t \notin {"str", "num"}}

CellOf(row, logical) ==
  LET at == {k \in 1..Len(row) : Logical(row[k].k) = logical}
  IN  IF at = {} THEN Undefined
      ELSE row[CHOOSE k \in at : \A other \in at : k <= other].v

\* the header check accepts the first row: three columns, one for each of
\* the first name, the phone and the notes
HeaderAccepted(input) ==
  /\ Len(input[1]) = 3
  /\ AbsentColumns(input) = <<>>
  /\ ExtraColumns(input) = <<>>

\* C19: under every header the header check accepts, an input whose rows all
\* hold a non-empty first name, a well-formed phone and notes that are text
\* passes validation, and the normaliser yields for every row the trimmed
\* cells of the three columns.
C19_AcceptedSpellingsNormalised ==
  ( /\ vpc = "return"
    /\ Len(vData) >= 1
    /\ HeaderAccepted(vData)
    /\ \A i \in 1..Len(vData) :
         /\ ~Blank(CellOf(vData[i], kfirstname))
         /\ MatchesPhonePattern(trim(toString(CellOf(vData[i], kphone))))
         /\ CellOf(vData[i], knotes).t = "str" )
  => /\ vResult.validation.isValid
     /\ Len(vResult.normalized) = Len(vData)
     /\ \A i \in 1..Len(vData) :
          /\ vResult.normalized[i].firstName
               = trim(toString(CellOf(vData[i], kfirstname)))
          /\ vResult.normalized[i].phone = trim(toString(CellOf(vData[i], kphone)))
          /\ vResult.normalized[i].notes = trim(toString(CellOf(vData[i], knotes)))

\* C20: when validateCSVFormat reports the input valid, every row has
\* exactly three columns, one for each of the first name, the phone and the
\* notes, and none of the three under two spellings.
C20_ValidHasThreeColumns ==
  (vpc = "return" /\ vResult.validation.isValid) =>
    \A i \in 1..Len(vData) :
      /\ Len(vData[i]) = 3
      /\ \A logical \in {kfirstname, kphone, knotes} :
           Cardinality({k \in 1..Len(vData[i]) :
                          Logical(vData[i][k].k) = logical}) = 1

\* C21: a file with the three column headers whose rows all have a first
\* name and a well-formed phone is accepted, whatever row has a blank or an
\* absent notes cell, the first row included, and the record of a row with
\* such a notes cell has the empty string as its notes.
C21_BlankNotesAccepted ==
  ( /\ ppc = "return"
    /\ \A i \in 1..Len(pFile.lines) :
         /\ trim(pFile.lines[i][1]) # <<>>
         /\ MatchesPhonePattern(trim(pFile.lines[i][2])) )
  => /\ pResult.validation.isValid
     /\ Len(pResult.normalized) = Len(pFile.lines)
     /\ \A i \in 1..Len(pFile.lines) :
          (Len(pFile.lines[i]) < 3 \/ trim(pFile.lines[i][3]) = <<>>)
            => pResult.normalized[i].notes = <<>>

\* C22: under every interleaving of the two uploads, every task a request has
\* created carries the name of the file the request sent and the trimmed
\* first name, phone and notes of the row of that file numbered by its
\* originalRow; the tasks of the two requests are different documents; and a
\* request answered with success has created one task for each of the n rows
\* of the file it sent.
C22_ProvenancePaired ==
  /\ \A r \in Runs :
       \A j \in 1..Len(createdTasks[r]) :
         LET m == createdTasks[r][j].metadata
             sent == req[r].body
         IN  /\ m.fileName = sent.originalname
             /\ m.originalRow \in 1..Len(sent.rows)
             /\ m.firstName
                  = trim(toString(CellOf(sent.rows[m.originalRow], kfirstname)))
             /\ m.phone = trim(toString(CellOf(sent.rows[m.originalRow], kphone)))
             /\ m.notes = trim(toString(CellOf(sent.rows[m.originalRow], knotes)))
  /\ \A r, q \in Runs :
       r # q => \A j \in 1..Len(createdTasks[r]), k \in 1..Len(createdTasks[q]) :
                  createdTasks[r][j]._id # createdTasks[q][k]._id
  /\ \A r \in Runs :
       response[r].status = 200 =>
         /\ Len(createdTasks[r]) = Len(req[r].body.rows)
         /\ \A i \in 1..Len(req[r].body.rows) :
              Cardinality({j \in 1..Len(createdTasks[r]) :
                             createdTasks[r][j].metadata.originalRow = i}) = 1

\* C23: a request reads the roster once: the roster it holds never changes;
\* at the step of the read every member of the roster is the user document of
\* an agent that is active in the directory at that moment; and every task
\* the request creates is assigned to exactly one member of that roster,
\* whatever the directory says at the moment of the write.
C23_RosterReadOnce ==
  [][\A r \in Runs :
       /\ agents[r] # Undefined => agents'[r] = agents[r]
       /\ (agents[r] = Undefined /\ agents'[r] # Undefined) =>
            \A k \in 1..Len(agents'[r].v) :
              LET d == agents'[r].v[k]
              IN  d.role = "agent" /\ d.isActive /\ users[d._id] = d
       /\ Len(createdTasks'[r]) > Len(createdTasks[r]) =>
            LET t == createdTasks'[r][Len(createdTasks'[r])]
            IN  /\ Len(createdTasks'[r]) = Len(createdTasks[r]) + 1
                /\ agents[r] # Undefined
                /\ Cardinality({k \in 1..Len(agents[r].v) :
                                  agents[r].v[k]._id = t.agentId}) = 1
                /\ tasks'[t._id].agentId = t.agentId]_vars

\* an agent of the roster a request has read was switched off afterwards,
\* and the last task of the request is about to be written for that agent
C23_Witness ==
  \E r \in Runs, a \in Agents :
    /\ pc[r] = "create"
    /\ pos[r] = Len(distribution[r].v)
    /\ pos[r] >= 2
    /\ \E k \in 1..Len(agents[r].v) :
         agents[r].v[k]._id = a /\ agents[r].v[k].isActive
    /\ ~users[a].isActive
    /\ taskData[r].agentId = a

\* the sum of the counts of a distribution summary
RECURSIVE SumCounts(_)
SumCounts(summary) ==
  IF summary = <<>> THEN 0 ELSE Head(summary).count + SumCounts(Tail(summary))

\* C24: the success response of an upload of n rows with a roster of w agents
\* has totalTasks = n, createdTasks = n and agentsCount = w; the counts of its
\* distribution summary sum to n; the k-th agent of the roster has an entry in
\* the summary exactly when k <= n, one entry at most, and its count is the
\* number of tasks of the run that the store holds for that agent; the
\* summary has no other entry.
C24_ResponseSummary ==
  \A r \in Runs :
    response[r].status = 200 =>
      LET d == response[r].data
          n == Len(data[r])
          roster == agents[r].v
          w == Len(roster)
          PersistedFor(a) ==
            {i \in 1..Len(tasks) :
               /\ tasks[i].agentId = a
               /\ \E j \in 1..Len(createdTasks[r]) :
                    createdTasks[r][j]._id = tasks[i]._id}
          entries(k) == {i \in 1..Len(d.distribution) :
                           /\ d.distribution[i].agentEmail = roster[k].email
                           /\ d.distribution[i].agentName = roster[k].name}
      IN  /\ d.totalTasks = n
          /\ d.createdTasks = n
          /\ d.agentsCount = w
          /\ w >= 1
          /\ SumCounts(d.distribution) = n
          /\ \A k \in 1..w :
               /\ entries(k) # {} <=> k <= n
               /\ entries(k) # {} <=> PersistedFor(roster[k]._id) # {}
               /\ Cardinality(entries(k)) <= 1
               /\ \A i \in entries(k) :
                    d.distribution[i].count
                      = Cardinality(PersistedFor(roster[k]._id))
          /\ \A i \in 1..Len(d.distribution) : \E k \in 1..w : i \in entries(k)

\* two uploads with two active agents have succeeded: one of a single row,
\* whose summary names the first agent only, and one of MaxRows rows, whose
\* summary names both
C24_Witness ==
  \E r, q \in Runs :
    /\ response[r].status = 200
    /\ response[q].status = 200
    /\ response[r].data.totalTasks = 1
    /\ response[r].data.agentsCount = 2
    /\ Len(response[r].data.distribution) = 1
    /\ response[q].data.totalTasks = MaxRows
    /\ response[q].data.agentsCount = 2
    /\ Len(response[q].data.distribution) = 2

\* C25: in every step, no task leaves the store and no task changes its id;
\* a task that enters the store is pending and is the task a request of the
\* upload handler has just created; a step of the upload handler leaves
\* every task already stored as it was; and a stored task changes only in a
\* step that is no step of the upload handler, which changes that one task
\* alone and leaves it with a status of the schema.
C25_PendingAtCreation ==
  [][/\ Len(tasks') >= Len(tasks)
     /\ \A i \in 1..Len(tasks) : tasks'[i]._id = tasks[i]._id
     /\ \A i \in (Len(tasks) + 1)..Len(tasks') :
          /\ tasks'[i].status = "pending"
          /\ \E r \in Runs : createdTasks'[r] = Append(createdTasks[r], tasks'[i])
     /\ handlerVars' # handlerVars =>
          \A i \in 1..Len(tasks) : tasks'[i] = tasks[i]
     /\ \A i \in 1..Len(tasks) :
          tasks'[i] # tasks[i] =>
            /\ handlerVars' = handlerVars
            /\ Len(tasks') = Len(tasks)
            /\ \A k \in (1..Len(tasks)) \ {i} : tasks'[k] = tasks[k]
            /\ tasks'[i].status \in StatusEnum]_vars

\* while the second upload is creating its tasks, a task of the first upload
\* has been taken in progress, and the tasks the second upload has created
\* so far are in the store as pending
C25_Witness ==
  \E r \in Runs :
    /\ pc[r] = "create"
    /\ Len(createdTasks[r]) >= 1
    /\ tasks[1].status = "in-progress"
    /\ \A j \in 1..Len(createdTasks[r]) :
         /\ createdTasks[r][j]._id > MaxRows
         /\ tasks[createdTasks[r][j]._id].status = "pending"

\* the input positions of the records the plan gives to the k-th agent
PositionsOf(k) ==
  {dPlan[j].taskIndex : j \in {i \in 1..Len(dPlan) : dPlan[i].agentId = dAgents[k]._id}}

\* the positions are consecutive
Contiguous(S) == \A a, b \in S : \A c \in a..b : c \in S

\* C26 as stated: the records of every agent are consecutive rows of the
\* input.
C26_ContiguousSlices ==
  dpc = "return" => \A k \in 1..Len(dAgents) : Contiguous(PositionsOf(k))

\* C26 amended: the records of the k-th agent of a roster of w are the rows
\* k, k + w, k + 2w, ... of the input, every position of the plan holds the
\* record of that input position, and the rows of an agent are consecutive
\* only when it has one record at most or is alone in the roster.
C26_EvenlySpacedSlices ==
  dpc = "return" =>
    LET n == Len(dTasks)
        w == Len(dAgents)
    IN  /\ Len(dPlan) = n
        /\ \A j \in 1..n : dPlan[j].taskIndex = j /\ dPlan[j].task = dTasks[j]
        /\ \A k \in 1..w :
             /\ PositionsOf(k) = {i \in 1..n : \E m \in 0..n : i = k + m * w}
             /\ Contiguous(PositionsOf(k))
                  <=> (Cardinality(PositionsOf(k)) <= 1 \/ w = 1)

\* a plan of MaxRecords records for two agents: the first agent has the first
\* and the third record, the second agent the record between them
C26_Witness ==
  /\ dpc = "return"
  /\ Len(dAgents) = 2
  /\ Len(dTasks) = MaxRecords
  /\ {1, 3} \subseteq PositionsOf(1)
  /\ 2 \in PositionsOf(2)

\* C27: after any sequence of status updates, the per-status counts of every
\* cohort of the history report cover every task of the cohort: completed,
\* pending and in-progress tasks, and the cancelled tasks where the cohort
\* reports them, add up to totalTasks.
C27_StatusCountsCoverCohort ==
  LET report == UploadHistory(tasks, users)
      ReportedCancelled(c) ==
        IF "cancelledTasks" \in DOMAIN c THEN c.cancelledTasks ELSE 0
  IN  \A i \in 1..Len(report) :
        report[i].completedTasks + report[i].pendingTasks
          + report[i].inProgressTasks + ReportedCancelled(report[i])
          = report[i].totalTasks

\* C28: for every cohort of the history report, also after an agent has been
\* deleted, agentsCount is the number of distinct agents the tasks of the
\* cohort refer to, and assignedAgents has one entry for each of them and no
\* other, which reports the number of tasks of the cohort assigned to it.
C28_AssignedAgentsOfCohort ==
  LET report == UploadHistory(tasks, users)
      ReferencedAgents(c) ==
        {tasks[m].agentId : m \in CohortOf(c.fileName, c.uploadedAt)}
      ReportedTotals(e) == {e[f] : f \in (DOMAIN e) \ {"name", "email"}}
  IN  \A i \in 1..Len(report) :
        LET c == report[i]
        IN  /\ c.agentsCount = Cardinality(ReferencedAgents(c))
            /\ Len(c.assignedAgents) = Cardinality(ReferencedAgents(c))
            /\ \A a \in ReferencedAgents(c) :
                 \E k \in 1..Len(c.assignedAgents) :
                   /\ c.assignedAgents[k].name = AgentDoc(a, TRUE).name
                   /\ c.assignedAgents[k].email = AgentDoc(a, TRUE).email
                   /\ Cardinality({m \in CohortOf(c.fileName, c.uploadedAt) :
                                     tasks[m].agentId = a})
                        \in ReportedTotals(c.assignedAgents[k])

\* C29: every step of a run, the step that aborts it on a persistence failure
\* included, adds at most one task of the run to the store, and leaves the
\* tasks the run has created as exactly those of the rows 1..k of its input,
\* in ascending order, for some k <= n; an aborted run keeps that prefix.
C29_AscendingRowPrefix ==
  [][\A r \in Runs :
       /\ Len(createdTasks'[r]) \in {Len(createdTasks[r]), Len(createdTasks[r]) + 1}
       /\ SubSeq(createdTasks'[r], 1, Len(createdTasks[r])) = createdTasks[r]
       /\ Len(tasks') - Len(tasks) \in {0, 1}
       /\ Len(createdTasks'[r]) <= Len(data'[r])
       /\ \A j \in 1..Len(createdTasks'[r]) :
            /\ createdTasks'[r][j].metadata.originalRow = j
            /\ createdTasks'[r][j]._id \in 1..Len(tasks')
            /\ tasks'[createdTasks'[r][j]._id].metadata
                 = createdTasks'[r][j].metadata
       /\ \A j, k \in 1..Len(createdTasks'[r]) :
            j < k => createdTasks'[r][j]._id < createdTasks'[r][k]._id
       /\ (response[r].status = 0 /\ response'[r].status = 500) =>
            createdTasks'[r] = createdTasks[r]]_vars

\* a run was aborted when it had persisted a task for every row but the
\* last, while the other run is in its loop and has persisted its first row
C29_Witness ==
  \E r, q \in Runs :
    /\ pc[r] = "done"
    /\ response[r].status = 500
    /\ Len(data[r]) = MaxRows
    /\ Len(createdTasks[r]) = MaxRows - 1
    /\ createdTasks[r][MaxRows - 1].metadata.originalRow = MaxRows - 1
    /\ pc[q] = "create"
    /\ Len(createdTasks[q]) = 1

\* C30: while a request has been received and has not finished parsing its
\* file (it is at the parser), the staging file at its
\* path exists and is the file the request sent, whatever the other request
\* receives or cleans up in the meantime, and two requests that have not
\* finished parsing have different staging paths.
C30_StagingNotShared ==
  /\ \A q \in Runs :
       pc[q] = "parse" =>
         /\ req[q].file.path \in DOMAIN staging
         /\ staging[req[q].file.path] = req[q].body
  /\ \A r, q \in Runs :
       (r # q /\ pc[r] = "parse" /\ pc[q] = "parse")
         => req[r].file.path # req[q].file.path

====
